---- MODULE Spec2Model ----
(***************************************************************************)
(* A model of src/main.cc: the argv loop that chooses between command mode  *)
(* and GUI mode, the command-mode echo of the backend's stdout, the        *)
(* GUI-mode message router (the backend -> surface dispatch closure of     *)
(* onStdOut, the surface -> backend table onMessage), the dispatch queue   *)
(* between the process reader thread and the event-loop thread, and the    *)
(* global shutdownHandler that signals and window exit callbacks invoke.   *)
(*                                                                         *)
(* Text is a sequence of one-character strings, so that std::stoi and the  *)
(* percent encoding are computed character by character.                   *)
(***************************************************************************)
EXTENDS Integers, Sequences, FiniteSets, TLC

\* ------------------------------------------------------------------ bounds

\* The number of inputs of one run: lines the backend writes, messages the
\* surfaces raise and signals delivered, taken together.
MaxEvents == 2

\* The number of lines the backend writes in the ordering scenario.
MaxFifoLines == 3

\* The number of lines the backend writes in command mode.
MaxCommandLines == 3

\* ------------------------------------------------------- program constants

SIGHUP == 1

SIGINT == 2

\* -------------------------------------------------------------------- text

Digits == {"0", "1", "2", "3", "4", "5", "6", "7", "8", "9"}

DigitVal(c) ==
  CASE c = "0" -> 0 [] c = "1" -> 1 [] c = "2" -> 2 [] c = "3" -> 3
    [] c = "4" -> 4 [] c = "5" -> 5 [] c = "6" -> 6 [] c = "7" -> 7
    [] c = "8" -> 8 [] c = "9" -> 9

DigitChar(d) ==
  CASE d = 0 -> "0" [] d = 1 -> "1" [] d = 2 -> "2" [] d = 3 -> "3"
    [] d = 4 -> "4" [] d = 5 -> "5" [] d = 6 -> "6" [] d = 7 -> "7"
    [] d = 8 -> "8" [] d = 9 -> "9"

\* The number of leading characters of s that are in set C.
LeadingIn(s, C) ==
  LET ks == {k \in 0..Len(s) : \A j \in 1..k : s[j] \in C}
  IN CHOOSE k \in ks : \A m \in ks : m <= k

\* The value of a run of decimal digits.
DigitsValue(ds) ==
  LET v[k \in 0..Len(ds)] ==
        IF k = 0 THEN 0 ELSE v[k - 1] * 10 + DigitVal(ds[k])
  IN v[Len(ds)]

\* The int a sign and a run of digits denote; no digit at all throws
\* std::invalid_argument: ok is FALSE when it throws.  (The texts of the
\* model have fewer than ten characters, so the value fits an int and
\* std::out_of_range is never thrown.)
StoiValue(neg, ds, mag) ==
  IF Len(ds) = 0
    THEN [ok |-> FALSE, val |-> 0]
    ELSE [ok |-> TRUE, val |-> IF neg THEN 0 - mag ELSE mag]

\* The digits that follow the sign; what follows the digits is ignored.
StoiDigits(neg, u) ==
  StoiValue(neg, SubSeq(u, 1, LeadingIn(u, Digits)),
            DigitsValue(SubSeq(u, 1, LeadingIn(u, Digits))))

\* The optional sign.
StoiSign(t) ==
  IF Len(t) > 0 /\ t[1] \in {"-", "+"}
    THEN StoiDigits(t[1] = "-", Tail(t))
    ELSE StoiDigits(FALSE, t)

\* std::stoi: leading white space is skipped, an optional sign is read, then
\* the longest run of digits.
Stoi(s) == StoiSign(SubSeq(s, LeadingIn(s, {" "}) + 1, Len(s)))

\* std::to_string of a non-negative int below 10^6.
to_string(n) ==
  LET str[k \in 1..6] ==
        LET q == n \div (10 ^ (k - 1))
        IN IF q < 10 THEN <<DigitChar(q)>>
           ELSE str[k + 1] \o <<DigitChar(q % 10)>>
  IN str[1]

\* The characters encodeURIComponent escapes, with their two hex digits.
Escapes ==
  { <<"{", "7", "B">>, <<"}", "7", "D">>, <<"\"", "2", "2">>,
    <<":", "3", "A">>, <<",", "2", "C">>, <<" ", "2", "0">>,
    <<"&", "2", "6">>, <<"%", "2", "5">>, <<"=", "3", "D">> }

encodeURIComponent(s) ==
  LET enc[k \in 0..Len(s)] ==
        IF k = 0 THEN <<>>
        ELSE LET e == {x \in Escapes : x[1] = s[k]}
             IN enc[k - 1] \o
                (IF e = {} THEN <<s[k]>>
                 ELSE LET x == CHOOSE y \in e : TRUE IN <<"%", x[2], x[3]>>)
  IN enc[Len(s)]

decodeURIComponent(s) ==
  LET dec[k \in 1..(Len(s) + 3)] ==
        IF k > Len(s) THEN <<>>
        ELSE IF s[k] = "%" /\ k + 2 <= Len(s)
                  /\ \E x \in Escapes : x[2] = s[k + 1] /\ x[3] = s[k + 2]
               THEN LET x == CHOOSE y \in Escapes :
                               y[2] = s[k + 1] /\ y[3] = s[k + 2]
                    IN <<x[1]>> \o dec[k + 3]
               ELSE <<s[k]>> \o dec[k + 1]
  IN dec[1]

\* ---------------------------------------------------------- the argv loop

\* std::string(arg).find(p) == 0: the argument begins with p.
StartsWith(arg, p) == Len(p) <= Len(arg) /\ SubSeq(arg, 1, Len(p)) = p

\* bool helpRequested: --help, -help or -h leads the argument.
HelpRequested(arg) ==
  \/ StartsWith(arg, <<"-", "-", "h", "e", "l", "p">>)
  \/ StartsWith(arg, <<"-", "h", "e", "l", "p">>)
  \/ StartsWith(arg, <<"-", "h">>)

\* bool versionRequested: --version, -version, -v or -V leads the argument.
VersionRequested(arg) ==
  \/ StartsWith(arg, <<"-", "-", "v", "e", "r", "s", "i", "o", "n">>)
  \/ StartsWith(arg, <<"-", "v", "e", "r", "s", "i", "o", "n">>)
  \/ StartsWith(arg, <<"-", "v">>)
  \/ StartsWith(arg, <<"-", "V">>)

\* std::string(arg).find("--test") == 0
TestRequested(arg) == StartsWith(arg, <<"-", "-", "t", "e", "s", "t">>)

\* A test for a bare token that does not spare the program name.
BareTokenAnywhere(c, arg) == ~StartsWith(arg, <<"-">>)

\* c >= 2 && std::string(arg).find("-") != 0, where c counts the arguments
\* read so far, this one included.
BareToken(c, arg) == c >= 2 /\ ~StartsWith(arg, <<"-">>)

\* isCommandMode after the iteration of the loop for args[c], given its
\* value before.
ArgvStep(isCommandMode, c, arg) ==
  \/ (IF TestRequested(arg) THEN isCommandMode
      ELSE IF BareToken(c, arg) THEN TRUE ELSE isCommandMode)
  \/ HelpRequested(arg)
  \/ VersionRequested(arg)

\* isCommandMode when the loop over argv has ended.
ArgvLoop(args) ==
  LET isCommandMode[c \in 0..Len(args)] ==
        IF c = 0 THEN FALSE
        ELSE ArgvStep(isCommandMode[c - 1], c, args[c])
  IN isCommandMode[Len(args)]

\* The program name and the arguments of the command lines of the model.
App == <<"a", "p", "p">>

Build == <<"b", "u", "i", "l", "d">>

TargetIos == <<"-", "-", "t", "a", "r", "g", "e", "t", "=", "i", "o", "s">>

TestFlag == <<"-", "-", "t", "e", "s", "t">>

HelpFlag == <<"-", "-", "h", "e", "l", "p">>

ShortVersionFlag == <<"-", "v">>

\* The command lines the program may be started with.
ArgLists ==
  { <<App>>,
    <<App, TestFlag>>,
    <<App, TargetIos>>,
    <<App, Build, TargetIos>>,
    <<App, TargetIos, Build>>,
    <<App, TestFlag, Build>>,
    <<App, HelpFlag>>,
    <<App, TestFlag, ShortVersionFlag>>,
    <<App, <<>>>> }

\* ---------------------------------------------------------------- commands

\* A line of the protocol: the verb, the text of its index field and its
\* other fields, each a text.
Line(name, index, fields) == [name |-> name, index |-> index, fields |-> fields]

\* Parse::get: the value of a field, the empty text when the line has none.
Get(cmd, key) ==
  IF key \in DOMAIN cmd.fields THEN cmd.fields[key] ELSE <<>>

\* Parse: the command of a line; an absent or unparseable index is 0.
\* The parsed value, or d when std::stoi threw.
OrElse(r, d) == IF r.ok THEN r.val ELSE d

Parse(out) ==
  [name |-> out.name, index |-> OrElse(Stoi(out.index), 0), fields |-> out.fields]

\* The reply line resolveToMainProcess builds: a resolve command carrying
\* the sequence token, the state and the (already encoded) value.
resolveToMainProcess(seq, state, value) ==
  Line("resolve", <<>>, [seq |-> seq, state |-> state, value |-> value])

\* The script resolveToRenderProcess builds for a surface to evaluate.
resolveToRenderProcess(seq, state, value) == <<"resolve", seq, state, value>>

\* The script emitToRenderProcess builds for a surface to evaluate.
emitToRenderProcess(event, value) == <<"emit", event, value>>

Null == <<"n", "u", "l", "l">>

\* The object the getScreenSize branch serialises.
ScreenSizeJson(size) ==
  <<"{", "\"", "w", "i", "d", "t", "h", "\"", ":">> \o to_string(size.width)
    \o <<",", "\"", "h", "e", "i", "g", "h", "t", "\"", ":">>
    \o to_string(size.height) \o <<"}">>

\* The display metrics the platform may report.
ScreenSizes == {[width |-> 1920, height |-> 1080], [width |-> 800, height |-> 600]}

\* ----------------------------------------------------------------- windows

Windows == {0, 1}

\* The two windows as main constructs them: w0 with the configured title
\* and size, w1 with the same title and 350 x 120.
InitWindows ==
  [i \in Windows |->
    [title |-> <<"T">>,
     width |-> IF i = 0 THEN 640 ELSE 350,
     height |-> IF i = 0 THEN 480 ELSE 120,
     visible |-> FALSE,
     location |-> <<>>,
     menu |-> <<>>,
     context |-> <<>>,
     evals |-> <<>>,
     killed |-> 0]]

\* What the router reads and writes while it handles one command: the
\* windows (w), the lines written to the backend's input (stdin), the text
\* written to the host's stdout (hostOut), the calls into the platform and
\* into the windows' message slots, in order (sys), main's exitCode, the
\* number of live backend processes (live), the
\* exit callbacks fired (fired), the lines handed to onMessage (delivered),
\* the display metrics queried (metrics), whether onMessage and onExit are
\* bound, whether an exception left the handler (threw) and whether the
\* handler's thread entered the shutdownHandler (halt).

SetTitle(R, i, seq, title) == [R EXCEPT !.w[i].title = title]

Show(R, i, seq) == [R EXCEPT !.w[i].visible = TRUE]

Hide(R, i, seq) == [R EXCEPT !.w[i].visible = FALSE]

Navigate(R, i, seq, url) == [R EXCEPT !.w[i].location = url]

SetSize(R, i, seq, width, height) ==
  [R EXCEPT !.w[i].width = width, !.w[i].height = height]

SetSystemMenu(R, i, seq, menu) == [R EXCEPT !.w[i].menu = menu]

SetContextMenu(R, i, seq, menu) == [R EXCEPT !.w[i].context = menu]

Eval(R, i, script) == [R EXCEPT !.w[i].evals = Append(@, script)]

OpenExternal(R, i, uri) ==
  [R EXCEPT !.sys = Append(@, <<"openExternal", i, uri>>)]

ShowInspector(R, i) == [R EXCEPT !.sys = Append(@, <<"showInspector", i>>)]

OpenDialog(R, i, seq, opts) ==
  [R EXCEPT !.sys = Append(@, <<"openDialog", i, seq, opts>>)]

writeToStdout(R, text) == [R EXCEPT !.hostOut = Append(@, text)]

\* Process::write: the line goes to the backend's input channel.
ProcessWrite(R, out) == [R EXCEPT !.stdin = Append(@, out)]

\* Window::exit: fires the window's exit callback when one is bound; the
\* callback is the shutdownHandler, which does not return.
WindowExit(R, i, code) ==
  IF R.onExitBound
    THEN [R EXCEPT !.fired = Append(@, [win |-> i, code |-> code]),
                   !.halt = TRUE]
    ELSE R

\* App::restart: the backend process is terminated and spawned again.
AppRestart(R) ==
  [R EXCEPT !.live = (IF @ > 0 THEN @ - 1 ELSE 0) + 1,
            !.sys = Append(@, <<"restart">>)]

\* ------------------------------------------------------------------ router

\* A selection that takes window 1 for index 1 and window 0 for the rest.
TargetOneOnly(cmd) == IF cmd.index = 1 THEN 1 ELSE 0

\* The window a command acts on: cmd.index == 0 ? w0 : w1
Target(cmd) == IF cmd.index = 0 THEN 0 ELSE 1

True == <<"t", "r", "u", "e">>

\* An exit branch that hands w.exit the exit code as it was before the
\* command's value was parsed.
ExitWithBefore(R, i, code) ==
  WindowExit([R EXCEPT !.exitCode = code], i, R.exitCode)

\* try { exitCode = std::stoi(text); } catch (...) {}; w.exit(exitCode)
ExitWith(R, i, code) == WindowExit([R EXCEPT !.exitCode = code], i, code)

\* The table of onMessage for the parsed command.
OnMessageTable(R, out, cmd) ==
  CASE cmd.name = "title" ->
         SetTitle(R, Target(cmd), Get(cmd, "seq"),
                  decodeURIComponent(Get(cmd, "value")))
    [] cmd.name = "exit" ->
         ExitWith(R, Target(cmd),
           OrElse(Stoi(decodeURIComponent(Get(cmd, "value"))), R.exitCode))
    [] cmd.name = "hide" -> Hide(R, Target(cmd), <<>>)
    [] cmd.name = "inspect" -> ShowInspector(R, Target(cmd))
    [] cmd.name = "external" ->
         OpenExternal(R, Target(cmd), decodeURIComponent(Get(cmd, "value")))
    [] cmd.name = "dialog" ->
         OpenDialog(R, Target(cmd), Get(cmd, "seq"),
           [isSave |-> Get(cmd, "type") = <<"s", "a", "v", "e">>,
            allowDirs |-> Get(cmd, "allowDirs") = True,
            allowFiles |-> Get(cmd, "allowFiles") = True,
            allowMultiple |-> Get(cmd, "allowMultiple") = True,
            defaultPath |-> decodeURIComponent(Get(cmd, "defaultPath")),
            title |-> decodeURIComponent(Get(cmd, "title")),
            defaultName |-> decodeURIComponent(Get(cmd, "defaultName"))])
    [] cmd.name = "context" ->
         SetContextMenu(R, Target(cmd), Get(cmd, "seq"),
                        decodeURIComponent(Get(cmd, "value")))
    [] OTHER -> ProcessWrite(R, out)

\* An onMessage whose context branch does not return, so that the line is
\* forwarded as well.
OnMessageFallThrough(R, out) ==
  IF out.name = "context"
    THEN ProcessWrite(OnMessageTable(R, out, Parse(out)), out)
    ELSE OnMessageTable(R, out, Parse(out))

\* onMessage: the surface -> backend table.
OnMessage(R, out) == OnMessageTable(R, out, Parse(out))

\* w.onMessage(out): the callback bound to the window's message slot runs;
\* calling an empty slot throws.
CallOnMessage(R, i, out) ==
  IF R.onMessageBound
    THEN OnMessage([R EXCEPT !.delivered = Append(@, out),
                             !.sys = Append(@, <<"onMessage", i>>)], out)
    ELSE [R EXCEPT !.threw = TRUE]

\* An acknowledgement made whether or not the command has a seq.
AcknowledgeAlways(R, i, seq) ==
  IF ~R.halt
    THEN CallOnMessage(R, i, resolveToMainProcess(seq, <<"0">>, Null))
    ELSE R

\* if (seq.size() > 0) w.onMessage(resolveToMainProcess(seq, "0", "null")),
\* reached when the call before it returned.
Acknowledge(R, i, seq) ==
  IF ~R.halt /\ Len(seq) > 0
    THEN CallOnMessage(R, i, resolveToMainProcess(seq, <<"0">>, Null))
    ELSE R

\* A getScreenSize branch that replies with the object as it is, not
\* encoded.
GetScreenSizeRaw(R, i, seq, size) ==
  CallOnMessage([R EXCEPT !.metrics = Append(@, size)], i,
    resolveToMainProcess(seq, <<"0">>, ScreenSizeJson(size)))

\* The getScreenSize branch, for the metrics the platform reports.
GetScreenSize(R, i, seq, size) ==
  CallOnMessage([R EXCEPT !.metrics = Append(@, size)], i,
    resolveToMainProcess(seq, <<"0">>, encodeURIComponent(ScreenSizeJson(size))))

\* The size branch: std::stoi of the width and of the height is not guarded.
Size(R, i, seq, width, height) ==
  IF width.ok /\ height.ok
    THEN SetSize(R, i, seq, width.val, height.val)
    ELSE [R EXCEPT !.threw = TRUE]

\* A restart branch that spawns a backend itself, the old one still live.
RestartRespawn(R) == [R EXCEPT !.live = @ + 1]

\* The restart branch: app.restart()
Restart(R) == AppRestart(R)

\* The table of the closure onStdOut dispatches, for the parsed command.
OnStdOutTable(R, cmd, i, seq, value, size) ==
  CASE cmd.name = "title" -> SetTitle(R, i, seq, decodeURIComponent(value))
    [] cmd.name = "restart" -> Restart(R)
    [] cmd.name = "show" -> Show(R, i, seq)
    [] cmd.name = "hide" -> Hide(R, i, seq)
    [] cmd.name = "navigate" -> Navigate(R, i, seq, decodeURIComponent(value))
    [] cmd.name = "size" ->
         Size(R, i, seq, Stoi(Get(cmd, "width")), Stoi(Get(cmd, "height")))
    [] cmd.name = "getScreenSize" -> GetScreenSize(R, i, seq, size)
    [] cmd.name = "menu" -> SetSystemMenu(R, i, seq, decodeURIComponent(value))
    [] cmd.name = "external" ->
         Acknowledge(OpenExternal(R, i, decodeURIComponent(value)), i, seq)
    [] cmd.name = "exit" ->
         Acknowledge(ExitWith(R, i, OrElse(Stoi(value), R.exitCode)), i, seq)
    [] cmd.name = "resolve" ->
         Eval(R, i, resolveToRenderProcess(seq, Get(cmd, "state"), value))
    [] cmd.name = "send" ->
         Eval(R, i, emitToRenderProcess(
                      decodeURIComponent(Get(cmd, "event")), value))
    [] cmd.name = "stdout" -> writeToStdout(R, decodeURIComponent(value))
    [] OTHER -> R

\* A closure whose last branch is taken by every verb no branch before it
\* serves, not by stdout alone.
OnStdOutParsedElse(R, cmd, size) ==
  IF cmd.name \in {"title", "restart", "show", "hide", "navigate", "size",
                   "getScreenSize", "menu", "external", "exit", "resolve",
                   "send"}
    THEN OnStdOutTable(R, cmd, Target(cmd), Get(cmd, "seq"),
                       Get(cmd, "value"), size)
    ELSE writeToStdout(R, decodeURIComponent(Get(cmd, "value")))

\* Parse cmd(out); auto &w = ...; auto seq = ...; auto value = ...
OnStdOutParsed(R, cmd, size) ==
  OnStdOutTable(R, cmd, Target(cmd), Get(cmd, "seq"), Get(cmd, "value"), size)

\* The closure onStdOut dispatches: the backend -> surface table.  size is
\* what the platform reports should the command query the display metrics.
OnStdOutClosure(R, out, size) == OnStdOutParsed(R, Parse(out), size)

\* ------------------------------------------------------------------- lines

V42 == <<"4", "2">>

Seq7 == <<"7">>

\* The lines the backend may write to its stdout.
BackendLines ==
  { Line("title", <<"0">>, [value |-> <<"a", "%", "2", "0", "b">>]),
    Line("restart", <<>>, <<>>),
    Line("show", <<"1">>, <<>>),
    Line("hide", <<"1">>, <<>>),
    Line("navigate", <<"0">>, [value |-> <<"u">>]),
    Line("size", <<"1">>, [width |-> <<"3", "0">>, height |-> <<"2", "0">>]),
    Line("size", <<"1">>, [width |-> <<"x">>, height |-> <<"2", "0">>]),
    Line("size", <<"0">>, [width |-> <<"3", "0">>, height |-> <<"2", "x">>]),
    Line("getScreenSize", <<"0">>, [seq |-> Seq7]),
    Line("menu", <<"0">>, [value |-> <<"m">>]),
    Line("external", <<"0">>, [seq |-> Seq7, value |-> <<"u", "%", "2", "6", "v">>]),
    Line("external", <<"1">>, [value |-> <<"u">>]),
    Line("exit", <<"0">>, [value |-> V42]),
    Line("exit", <<"1">>, [value |-> V42, seq |-> Seq7]),
    Line("exit", <<"0">>, [value |-> <<"x">>]),
    Line("exit", <<"0">>, [value |-> <<"4", "x">>]),
    Line("resolve", <<"0">>, [seq |-> Seq7, state |-> <<"0">>, value |-> <<"v">>]),
    Line("send", <<"1">>, [event |-> <<"e">>, value |-> <<"v">>]),
    Line("stdout", <<>>, [value |-> <<"o">>]),
    Line("frob", <<"0">>, [value |-> <<"v">>, seq |-> Seq7]),
    Line("", <<>>, <<>>) }

\* The lines a surface may raise through its message callback.
SurfaceLines ==
  { Line("title", <<"1">>, [value |-> <<"s">>]),
    Line("exit", <<"0">>, [value |-> V42]),
    Line("exit", <<"1">>, [value |-> <<"4", "x">>]),
    Line("exit", <<"0">>, [value |-> <<"x">>]),
    Line("hide", <<"0">>, <<>>),
    Line("inspect", <<"0">>, <<>>),
    Line("external", <<"0">>, [value |-> <<"u">>]),
    Line("dialog", <<"0">>, [seq |-> Seq7, type |-> <<"s", "a", "v", "e">>]),
    Line("context", <<"1">>, [seq |-> Seq7, value |-> <<"c">>]),
    Line("send", <<"0">>, [event |-> <<"e">>, value |-> <<"v">>]),
    Line("resolve", <<"0">>, [seq |-> Seq7, state |-> <<"0">>, value |-> <<"v">>]),
    Line("", <<>>, <<>>) }

\* The lines of the ordering scenario: a command that sets state, one whose
\* handling calls further into the router, and one that writes to the host.
FifoLines ==
  { Line("title", <<"0">>, [value |-> <<"a">>]),
    Line("getScreenSize", <<"0">>, [seq |-> Seq7]),
    Line("stdout", <<>>, [value |-> <<"o">>]) }

\* The messages of the ordering scenario: one served locally, one forwarded.
FifoMessages ==
  { Line("title", <<"1">>, [value |-> <<"s">>]),
    Line("send", <<"0">>, [event |-> <<"e">>, value |-> <<"v">>]) }

\* ------------------------------------------------------------------- state

VARIABLES
  argv,        \* the command line: the program name and its arguments
  pc,          \* where main's thread is
  handler,     \* what the global shutdownHandler is bound to
  installed,   \* whether signalHandler is installed for SIGINT and SIGHUP
  script,      \* the lines the backend has written to its stdout, in order
  queue,       \* the closures app.dispatch holds for the event-loop thread
  running,     \* per thread, the router handler it is executing
  processed,   \* the lines the backend -> surface table took up, in order
  rs,          \* the state the router reads and writes
  runs,        \* the invocations of the shutdownHandler
  kills,       \* how often process.kill and app.kill were called
  terminated,  \* how the program ended, and with which code
  left         \* the inputs the run may still receive, by kind and in all

vars == <<argv, pc, handler, installed, script, queue, running, processed, rs, runs,
          kills, terminated, left>>

Threads == {"loop", "reader"}

NoTask == [table |-> "none"]

Task(table, out) == [table |-> table, out |-> out, phase |-> "body"]

Alive == terminated.by = "none"

\* One more input of a kind may arrive.
May(kind) == left[kind] > 0 /\ left.all > 0

Taken(kind) == [left EXCEPT ![kind] = @ - 1, !.all = @ - 1]

\* The state of a run with main's thread at the given place and the given
\* windows, which receives at most the given numbers of inputs.
StartAt(at, w, lines, msgs, signals, all) ==
  /\ pc = at
  /\ handler = "unbound"
  /\ installed = FALSE
  /\ script = <<>>
  /\ queue = <<>>
  /\ running = [t \in Threads |-> NoTask]
  /\ processed = <<>>
  /\ rs = [w |-> w, stdin |-> <<>>, hostOut |-> <<>>, sys |-> <<>>,
           exitCode |-> 0, live |-> 0, fired |-> <<>>, delivered |-> <<>>,
           metrics |-> <<>>, onMessageBound |-> FALSE, onExitBound |-> FALSE,
           threw |-> FALSE, halt |-> FALSE]
  /\ runs = <<>>
  /\ kills = [process |-> 0, app |-> 0]
  /\ terminated = [by |-> "none", code |-> 0]
  /\ left = [lines |-> lines, msgs |-> msgs, signals |-> signals, all |-> all]

\* The state when main, started with no argument, has constructed the two
\* windows (GUI mode).
InitWith(lines, msgs, signals, all) ==
  /\ argv = <<App>>
  /\ StartAt("process", InitWindows, lines, msgs, signals, all)

Init == InitWith(MaxEvents, MaxEvents, MaxEvents, MaxEvents)

\* ----------------------------------------------------------- main's thread

\* A constructor of Process that returns when the backend could not be
\* started, as it does when it could.
ProcessStartedOrNot(started, next) ==
  /\ rs' = IF started THEN [rs EXCEPT !.live = @ + 1] ELSE rs
  /\ pc' = next
  /\ UNCHANGED terminated

\* The constructor of Process: the backend is started and main goes on to
\* next, or it cannot be started, which ends the program.
ProcessStarted(started, next) ==
  IF started
    THEN /\ rs' = [rs EXCEPT !.live = @ + 1]
         /\ pc' = next
         /\ UNCHANGED terminated
    ELSE /\ terminated' = [by |-> "spawn", code |-> 1]
         /\ UNCHANGED <<rs, pc>>

\* Process process(cmd + argvForward.str(), cwd, onStdOut, onStdErr)
SpawnProcess ==
  /\ Alive /\ pc = "process"
  /\ \E started \in BOOLEAN : ProcessStarted(started, "onMessage")
  /\ UNCHANGED <<argv, handler, installed, script, queue, running, processed,
                 runs, kills, left>>

\* w0.onMessage = onMessage; w1.onMessage = onMessage
BindOnMessage ==
  /\ Alive /\ pc = "onMessage"
  /\ rs' = [rs EXCEPT !.onMessageBound = TRUE]
  /\ pc' = "shutdownHandler"
  /\ UNCHANGED <<argv, handler, installed, script, queue, running, processed, runs,
                 kills, terminated, left>>

\* shutdownHandler = [&](int code) {...}; app.onExit, w0.onExit and
\* w1.onExit are bound to it.
BindShutdownHandler ==
  /\ Alive /\ pc = "shutdownHandler"
  /\ handler' = "gui"
  /\ rs' = [rs EXCEPT !.onExitBound = TRUE]
  /\ pc' = "signals"
  /\ UNCHANGED <<argv, installed, script, queue, running, processed, runs, kills,
                 terminated, left>>

\* A main that installs signalHandler before it binds the shutdownHandler.
InstallSignalsFirst ==
  /\ Alive /\ pc \in {"shutdownHandler", "signals"}
  /\ pc = "shutdownHandler" => ~installed
  /\ installed' = TRUE
  /\ pc' = IF pc = "signals" THEN "loop" ELSE pc
  /\ UNCHANGED <<argv, handler, script, queue, running, processed, rs, runs, kills,
                 terminated, left>>

\* signal(SIGHUP, signalHandler); signal(SIGINT, signalHandler)
InstallSignals ==
  /\ Alive /\ pc = "signals"
  /\ installed' = TRUE
  /\ pc' = "loop"
  /\ UNCHANGED <<argv, handler, script, queue, running, processed, rs, runs, kills,
                 terminated, left>>

\* The places of main's thread in the command-mode block.
CommandPcs ==
  {"command.process", "command.shutdownHandler", "command.signals",
   "command.return"}

\* The loop over argv and then if (isCommandMode): main enters the
\* command-mode block or goes on to construct the windows.
ParseArgs ==
  /\ Alive /\ pc = "argv"
  /\ pc' = IF ArgvLoop(argv) THEN "command.process" ELSE "windows"
  /\ UNCHANGED <<argv, handler, installed, script, queue, running, processed,
                 rs, runs, kills, terminated, left>>

\* Window w0(app, ...); Window w1(app, ...)
ConstructWindows ==
  /\ Alive /\ pc = "windows"
  /\ rs' = [rs EXCEPT !.w = InitWindows]
  /\ pc' = "process"
  /\ UNCHANGED <<argv, handler, installed, script, queue, running, processed,
                 runs, kills, terminated, left>>

\* Process process(cmd + argvForward.str(), cwd, [&](out) {...}, ...) of the
\* command-mode block.
SpawnCommandProcess ==
  /\ Alive /\ pc = "command.process"
  /\ \E started \in BOOLEAN : ProcessStarted(started, "command.shutdownHandler")
  /\ UNCHANGED <<argv, handler, installed, script, queue, running, processed,
                 runs, kills, left>>

\* shutdownHandler = [&](int signum) {...} of the command-mode block.
BindCommandShutdownHandler ==
  /\ Alive /\ pc = "command.shutdownHandler"
  /\ handler' = "command"
  /\ pc' = "command.signals"
  /\ UNCHANGED <<argv, installed, script, queue, running, processed, rs, runs,
                 kills, terminated, left>>

\* signal(SIGHUP, signalHandler); signal(SIGINT, signalHandler) of the
\* command-mode block.
InstallCommandSignals ==
  /\ Alive /\ pc = "command.signals"
  /\ installed' = TRUE
  /\ pc' = "command.return"
  /\ UNCHANGED <<argv, handler, script, queue, running, processed, rs, runs,
                 kills, terminated, left>>

\* return exitCode of the command-mode block: process is destroyed first,
\* which waits for its reader threads, so main returns once the backend's
\* output has ended and no thread is held in the shutdownHandler.
ReturnFromMain ==
  /\ Alive /\ pc = "command.return"
  /\ rs.live = 0 /\ runs = <<>>
  /\ terminated' = [by |-> "main", code |-> rs.exitCode]
  /\ UNCHANGED <<argv, pc, handler, installed, script, queue, running,
                 processed, rs, runs, kills, left>>

\* ------------------------------------------------------- the reader thread

\* std::cout << text << std::endl
Cout(R, text) == [R EXCEPT !.hostOut = Append(@, text)]

\* exitCode = stoi(cmd.get("value")); exit(exitCode): an std::stoi that
\* throws leaves the callback.
CommandExit(R, code) ==
  IF code.ok THEN [R EXCEPT !.exitCode = code.val, !.halt = TRUE]
             ELSE [R EXCEPT !.threw = TRUE]

\* A command-mode callback that echoes the value as it is, not decoded.
OnCommandStdOutRaw(R, cmd) ==
  IF cmd.name # "exit"
    THEN Cout(R, Get(cmd, "value"))
    ELSE CommandExit(R, Stoi(Get(cmd, "value")))

\* The stdout callback of the command-mode Process, for the parsed line.
OnCommandStdOut(R, cmd) ==
  IF cmd.name # "exit"
    THEN Cout(R, decodeURIComponent(Get(cmd, "value")))
    ELSE CommandExit(R, Stoi(Get(cmd, "value")))

\* The command-mode callback ends with the state R: exit(exitCode) ends the
\* program, and so does an exception that left the callback.
CommandFinish(R) ==
  /\ rs' = [R EXCEPT !.halt = FALSE, !.threw = FALSE]
  /\ terminated' = IF R.threw THEN [by |-> "abort", code |-> 134]
                   ELSE IF R.halt THEN [by |-> "command", code |-> R.exitCode]
                   ELSE terminated

\* In command mode the backend writes a line of C to its stdout; the reader
\* thread reads it and runs the callback.
CommandDeliver(C) ==
  /\ Alive /\ pc \in CommandPcs \ {"command.process"}
  /\ rs.live > 0
  /\ May("lines")
  /\ \E out \in C :
       /\ script' = Append(script, out)
       /\ CommandFinish(OnCommandStdOut(rs, Parse(out)))
  /\ left' = Taken("lines")
  /\ UNCHANGED <<argv, pc, handler, installed, queue, running, processed, runs,
                 kills>>

\* In command mode the backend ends by itself and its output with it.
BackendExits ==
  /\ Alive /\ pc \in CommandPcs \ {"command.process"}
  /\ rs.live > 0
  /\ rs' = [rs EXCEPT !.live = 0]
  /\ UNCHANGED <<argv, pc, handler, installed, script, queue, running,
                 processed, runs, kills, terminated, left>>

\* App::dispatch: the closure joins the end of the queue the event-loop
\* thread serves.
AppDispatch(q, closure) == Append(q, closure)

\* The closure of a line starts on thread t where onStdOut was called.
RunHere(t, out) ==
  /\ running' = [running EXCEPT ![t] = Task("stdout", out)]
  /\ processed' = Append(processed, out)
  /\ UNCHANGED queue

\* onStdOut without app.dispatch: the closure runs on the calling thread.
OnStdOutDirect(t, out) == RunHere(t, out)

\* onStdOut that dispatches every command but stdout, which it serves on
\* the calling thread.
OnStdOutUnqueuedStdout(t, out) ==
  IF out.name = "stdout"
    THEN RunHere(t, out)
    ELSE /\ queue' = AppDispatch(queue, out)
         /\ UNCHANGED <<running, processed>>

\* onStdOut, called on thread t with a line of the backend's stdout: the
\* closure that handles the line is handed to app.dispatch, which queues it
\* for the event-loop thread.
OnStdOut(t, out) ==
  /\ queue' = AppDispatch(queue, out)
  /\ UNCHANGED <<running, processed>>

\* The backend writes a line of B to its stdout; the reader thread reads it
\* and calls onStdOut.
ReaderDeliver(B) ==
  /\ Alive /\ pc \in {"onMessage", "shutdownHandler", "signals", "loop"}
  /\ rs.live > 0
  /\ running["reader"] = NoTask
  /\ May("lines")
  /\ \E out \in B :
       /\ script' = Append(script, out)
       /\ OnStdOut("reader", out)
  /\ left' = Taken("lines")
  /\ UNCHANGED <<argv, pc, handler, installed, rs, runs, kills, terminated>>

\* --------------------------------------------------- the event-loop thread

\* app.run() takes the oldest dispatched closure and starts it.
LoopDispatch ==
  /\ Alive /\ pc = "loop" /\ kills.app = 0
  /\ running["loop"] = NoTask
  /\ queue # <<>>
  /\ running' = [running EXCEPT !["loop"] = Task("stdout", Head(queue))]
  /\ processed' = Append(processed, Head(queue))
  /\ queue' = Tail(queue)
  /\ UNCHANGED <<argv, pc, handler, installed, script, rs, runs, kills, terminated,
                 left>>

\* app.run() delivers a message of S that a surface raised: the window's
\* onMessage callback starts on the event-loop thread.
SurfaceMessage(S) ==
  /\ Alive /\ pc = "loop" /\ kills.app = 0
  /\ running["loop"] = NoTask
  /\ May("msgs")
  /\ \E i \in Windows : rs.w[i].killed = 0
  /\ \E out \in S :
       running' = [running EXCEPT !["loop"] = Task("message", out)]
  /\ left' = Taken("msgs")
  /\ UNCHANGED <<argv, pc, handler, installed, script, queue, processed, rs, runs,
                 kills, terminated>>

\* A new invocation of the shutdownHandler with an exit code.
Run(by, code) == [by |-> by, code |-> code, pc |-> 1, did |-> <<>>]

\* What the handler thread t is executing does to the router's state.
Handle(t, size) ==
  IF running[t].table = "stdout"
    THEN OnStdOutClosure(rs, running[t].out, size)
    ELSE CallOnMessage(rs, 0, running[t].out)

\* The handler of thread t ends with the router's state R: an exception
\* that leaves it ends the program; a handler that entered the
\* shutdownHandler stays in it.
FinishWith(t, R) ==
  /\ rs' = [R EXCEPT !.halt = FALSE, !.threw = FALSE]
  /\ terminated' = IF R.threw THEN [by |-> "abort", code |-> 134]
                              ELSE terminated
  /\ runs' = IF R.halt /\ ~R.threw
               THEN Append(runs, Run(t, R.fired[Len(R.fired)].code))
               ELSE runs
  /\ running' = IF R.halt /\ ~R.threw
                  THEN [running EXCEPT ![t].phase = "shutdown"]
                  ELSE [running EXCEPT ![t] = NoTask]

\* The handler thread t is executing runs to its end.
Finish(t) ==
  /\ Alive
  /\ running[t] # NoTask
  /\ running[t].phase = "body"
  /\ \E size \in ScreenSizes : FinishWith(t, Handle(t, size))
  /\ UNCHANGED <<argv, pc, handler, installed, script, queue, processed, kills, left>>

\* while (app.run() == 0); exit(exitCode): the loop ends once the
\* application shell was killed, and main exits with exitCode.
LoopExit ==
  /\ Alive /\ pc = "loop" /\ kills.app > 0
  /\ running["loop"] = NoTask
  /\ terminated' = [by |-> "main", code |-> rs.exitCode]
  /\ UNCHANGED <<argv, pc, handler, installed, script, queue, running, processed,
                 rs, runs, kills, left>>

\* ---------------------------------------------------------------- shutdown

\* A signalHandler that hands the shutdownHandler main's exitCode.
SignalExitCode(sig) ==
  /\ Alive /\ installed
  /\ May("signals")
  /\ left' = Taken("signals")
  /\ runs' = Append(runs, Run("signal", rs.exitCode))
  /\ UNCHANGED <<argv, pc, handler, installed, script, queue, running,
                 processed, rs, kills, terminated>>

\* signalHandler(signal): the operating system delivers SIGINT or SIGHUP to
\* some thread of the program, which calls shutdownHandler(signal); calling
\* the std::function while it is empty throws, which ends the program.
Signal(sig) ==
  /\ Alive /\ installed
  /\ May("signals")
  /\ left' = Taken("signals")
  /\ runs' = IF handler = "unbound" THEN runs
                                    ELSE Append(runs, Run("signal", sig))
  /\ terminated' = IF handler = "unbound"
                     THEN [by |-> "bad_function_call", code |-> 134]
                     ELSE terminated
  /\ UNCHANGED <<argv, pc, handler, installed, script, queue, running,
                 processed, rs, kills>>

\* A shutdownHandler that kills the windows before the backend process.
ShutdownHandlerWindowsFirst ==
  <<"w0.kill", "w1.kill", "process.kill", "app.kill", "exit">>

\* A shutdownHandler that leaves window 1 alone.
ShutdownHandlerOneWindow == <<"process.kill", "w0.kill", "app.kill", "exit">>

\* The statements of the GUI-mode shutdownHandler, in order.
ShutdownHandler == <<"process.kill", "w0.kill", "w1.kill", "app.kill", "exit">>

\* The statements of the command-mode shutdownHandler, in order.
ShutdownHandlerCommand == <<"process.kill", "exit">>

\* The statements of the shutdownHandler as it is bound.
Bound(h) == IF h = "command" THEN ShutdownHandlerCommand ELSE ShutdownHandler

\* Invocation k of the shutdownHandler executes its next statement.
ShutdownStep(k) ==
  /\ Alive
  /\ runs[k].pc <= Len(Bound(handler))
  /\ LET op == Bound(handler)[runs[k].pc]
     IN /\ runs' = [runs EXCEPT ![k].pc = @ + 1, ![k].did = Append(@, op)]
        /\ kills' = CASE op = "process.kill" -> [kills EXCEPT !.process = @ + 1]
                      [] op = "app.kill" -> [kills EXCEPT !.app = @ + 1]
                      [] OTHER -> kills
        /\ rs' = CASE op = "process.kill" ->
                        [rs EXCEPT !.live = IF @ > 0 THEN @ - 1 ELSE 0]
                   [] op = "w0.kill" -> [rs EXCEPT !.w[0].killed = @ + 1]
                   [] op = "w1.kill" -> [rs EXCEPT !.w[1].killed = @ + 1]
                   [] OTHER -> rs
        /\ terminated' = IF op = "exit"
                           THEN [by |-> "exit", code |-> runs[k].code]
                           ELSE terminated
  /\ UNCHANGED <<argv, pc, handler, installed, script, queue, running, processed,
                 left>>

\* A step of the program whose backend writes lines of B and whose surfaces
\* raise messages of S.
Step(B, S) ==
  \/ SpawnProcess
  \/ BindOnMessage
  \/ BindShutdownHandler
  \/ InstallSignals
  \/ ReaderDeliver(B)
  \/ LoopDispatch
  \/ SurfaceMessage(S)
  \/ \E t \in Threads : Finish(t)
  \/ LoopExit
  \/ \E sig \in {SIGINT, SIGHUP} : Signal(sig)
  \/ \E k \in DOMAIN runs : ShutdownStep(k)

Next == Step(BackendLines, SurfaceLines)

Spec == Init /\ [][Next]_vars

\* The lines of the window-selection scenario: every verb of the backend ->
\* surface table, with the index absent, not a number, 0, 1, 2 and -1.
IndexLines ==
  { Line("title", <<"2">>, [value |-> <<"n">>]),
    Line("title", <<"0">>, [value |-> <<"n">>]),
    Line("restart", <<"1">>, <<>>),
    Line("show", <<"-", "1">>, <<>>),
    Line("hide", <<>>, <<>>),
    Line("navigate", <<"x">>, [value |-> <<"n">>]),
    Line("size", <<"2">>, [width |-> <<"3", "0">>, height |-> <<"2", "0">>]),
    Line("getScreenSize", <<"1">>, [seq |-> Seq7]),
    Line("menu", <<"1">>, [value |-> <<"n">>]),
    Line("external", <<"2">>, [value |-> <<"n">>]),
    Line("exit", <<"-", "1">>, [value |-> V42]),
    Line("resolve", <<"2">>, [seq |-> Seq7, state |-> <<"0">>, value |-> <<"n">>]),
    Line("send", <<>>, [event |-> <<"e">>, value |-> <<"n">>]),
    Line("stdout", <<"1">>, [value |-> <<"n">>]) }

\* The messages of the window-selection scenario: every verb of the
\* surface -> backend table, and one that is forwarded.
IndexMessages ==
  { Line("title", <<"-", "1">>, [value |-> <<"n">>]),
    Line("exit", <<"2">>, [value |-> V42]),
    Line("hide", <<"x">>, <<>>),
    Line("inspect", <<"2">>, <<>>),
    Line("external", <<"1">>, [value |-> <<"n">>]),
    Line("dialog", <<>>, [seq |-> Seq7]),
    Line("context", <<"2">>, [seq |-> Seq7, value |-> <<"n">>]),
    Line("context", <<"0">>, [seq |-> Seq7, value |-> <<"n">>]),
    Line("send", <<"1">>, [event |-> <<"e">>, value |-> <<"n">>]) }

NextIndex == Step(IndexLines, IndexMessages)

SpecIndex == Init /\ [][NextIndex]_vars

\* The lines the backend may write in command mode.
CommandLines ==
  { Line("stdout", <<>>, [value |-> <<"a", "%", "2", "0", "b">>]),
    Line("title", <<"0">>, [value |-> <<"t">>]),
    Line("", <<>>, <<>>),
    Line("exit", <<>>, [value |-> <<"3">>]),
    Line("exit", <<>>, [value |-> V42]),
    Line("exit", <<>>, [value |-> <<"x">>]),
    Line("exit", <<>>, [value |-> <<"4", "x">>]),
    Line("exit", <<>>, <<>>) }

\* A step of the command-mode block whose backend writes lines of C.
CommandStep(C) ==
  \/ SpawnCommandProcess
  \/ BindCommandShutdownHandler
  \/ InstallCommandSignals
  \/ CommandDeliver(C)
  \/ BackendExits
  \/ ReturnFromMain

\* The whole program: main from its start, with any of the command lines,
\* in command mode or in GUI mode.
InitCli ==
  /\ argv \in ArgLists
  /\ StartAt("argv", <<>>, MaxEvents, MaxEvents, MaxEvents, MaxEvents)

NextCli ==
  \/ ParseArgs
  \/ ConstructWindows
  \/ CommandStep(CommandLines)
  \/ Next

SpecCli == InitCli /\ [][NextCli]_vars

\* Main from its start to the construction of the windows, and the
\* command-mode block with up to MaxCommandLines lines and one signal.
InitCommand ==
  /\ argv \in ArgLists
  /\ StartAt("argv", <<>>, MaxCommandLines, 0, 1, MaxCommandLines + 1)

NextCommand ==
  \/ ParseArgs
  \/ ConstructWindows
  \/ CommandStep(CommandLines)
  \/ \E sig \in {SIGINT, SIGHUP} : Signal(sig)
  \/ \E k \in DOMAIN runs : ShutdownStep(k)

SpecCommand == InitCommand /\ [][NextCommand]_vars

\* The ordering scenario: up to MaxFifoLines lines of FifoLines, and one
\* message and one signal beside them.
InitFifo == InitWith(MaxFifoLines, 1, 1, MaxFifoLines + 1)

NextFifo == Step(FifoLines, FifoMessages)

SpecFifo == InitFifo /\ [][NextFifo]_vars

\* ------------------------------------------------------------------ claims

IsPrefix(a, b) == Len(a) <= Len(b) /\ \A k \in 1..Len(a) : a[k] = b[k]

\* C1: every invocation of the GUI-mode shutdown coordinator tears down in
\* the order backend process, window 0, window 1, application shell, exit
\* with the code it was given: what an invocation has done so far is a
\* prefix of that order, no teardown step has happened in the program
\* before the step ahead of it, and an exit by the coordinator carries the
\* code of an invocation that did all the steps.
TeardownOrder ==
  /\ \A k \in DOMAIN runs :
       IsPrefix(runs[k].did,
                <<"process.kill", "w0.kill", "w1.kill", "app.kill", "exit">>)
  /\ rs.w[0].killed > 0 => kills.process > 0
  /\ rs.w[1].killed > 0 => rs.w[0].killed > 0
  /\ kills.app > 0 => rs.w[1].killed > 0
  /\ terminated.by = "exit" =>
       /\ kills.app > 0
       /\ \E k \in DOMAIN runs :
            /\ Len(runs[k].did) = 5
            /\ terminated.code = runs[k].code

\* C1's case: the coordinator, invoked by a signal while another invocation
\* is under way, has run to the end and ended the program.
TeardownDone ==
  /\ terminated.by = "exit"
  /\ Len(runs) = 2
  /\ terminated.code \in {SIGINT, SIGHUP}

\* C2: shutdown is idempotent: whatever the triggers, each teardown step is
\* performed at most once (the backend process is killed at most once) and
\* at most one invocation of the coordinator is ever tearing down.
ShutdownIdempotent ==
  /\ kills.process <= 1
  /\ kills.app <= 1
  /\ \A i \in Windows : rs.w[i].killed <= 1
  /\ Cardinality({k \in DOMAIN runs : runs[k].pc > 1}) <= 1

\* C3: the lines the backend wrote are taken up by the backend -> surface
\* table in the order they were written: what the table has taken up is
\* always the beginning of what the backend wrote.
FifoOrder == IsPrefix(processed, script)

\* C3's case: three different lines were written and taken up, the first
\* one's handling called further into the router, and a surface message
\* was served in between.
FifoThree ==
  /\ Len(processed) = 3
  /\ processed[1].name = "getScreenSize"
  /\ processed[2].name = "title"
  /\ processed[3].name = "stdout"
  /\ Len(rs.delivered) = 2
  /\ rs.hostOut # <<>>

\* C4: the router's tables run on the event-loop thread only, never on the
\* reader thread, and no two handlers run at the same time.
RouterOnEventLoop ==
  /\ \A t \in Threads : running[t] # NoTask => t = "loop"
  /\ Cardinality({t \in Threads : running[t] # NoTask}) <= 1

\* C4's case: the event-loop thread is in the handler of a backend line
\* while the reader thread has handed over the next one.
RouterBusy ==
  /\ running["loop"] # NoTask
  /\ running["loop"].table = "stdout"
  /\ running["loop"].phase = "body"
  /\ Len(queue) = 1

Finishes(t) ==
  /\ running[t] # NoTask
  /\ running[t].phase = "body"
  /\ running'[t] # running[t]

\* The text is an integer: an optional sign and then digits only.
IsInteger(text) ==
  /\ Len(text) > 0
  /\ \/ \A k \in 1..Len(text) : text[k] \in Digits
     \/ /\ Len(text) > 1
        /\ text[1] \in {"-", "+"}
        /\ \A k \in 2..Len(text) : text[k] \in Digits

\* C6: an exit command whose value is not an integer resolves to exit code
\* 0: the coordinator its handler invoked was given 0.
ExitNotIntegerIsZero ==
  \A t \in Threads :
    (/\ running[t] # NoTask
     /\ running[t].phase = "shutdown"
     /\ running[t].out.name = "exit"
     /\ ~IsInteger(Get(running[t].out, "value")))
    => \A k \in DOMAIN runs : runs[k].by = t => runs[k].code = 0

NotLocal(out) ==
  out.name \notin {"title", "exit", "hide", "inspect", "external", "dialog",
                   "context"}

\* C8: the lines written to the backend's input are exactly the lines
\* handed to onMessage whose verb is none of title, exit, hide, inspect,
\* external, dialog, context: each of them once, unchanged, in order.
ForwardedIffNotLocal == rs.stdin = SelectSeq(rs.delivered, NotLocal)

\* C8's case: the surfaces raised a context message, served locally, and a
\* send message, forwarded.
ForwardedOne ==
  /\ Len(rs.delivered) = 2
  /\ rs.delivered[1].name = "context"
  /\ rs.w[1].context = <<"c">>
  /\ rs.delivered[2].name = "send"
  /\ rs.stdin = <<rs.delivered[2]>>

EncodedScreenSize(size) ==
  IF size.width = 800
    THEN <<"%", "7", "B", "%", "2", "2", "w", "i", "d", "t", "h", "%", "2",
           "2", "%", "3", "A", "8", "0", "0", "%", "2", "C", "%", "2", "2",
           "h", "e", "i", "g", "h", "t", "%", "2", "2", "%", "3", "A", "6",
           "0", "0", "%", "7", "D">>
    ELSE <<"%", "7", "B", "%", "2", "2", "w", "i", "d", "t", "h", "%", "2",
           "2", "%", "3", "A", "1", "9", "2", "0", "%", "2", "C", "%", "2",
           "2", "h", "e", "i", "g", "h", "t", "%", "2", "2", "%", "3", "A",
           "1", "0", "8", "0", "%", "7", "D">>

\* The resolve line for seq 7, state 0 and the encoded metrics.
ScreenSizeReply(size) ==
  [name |-> "resolve", index |-> <<>>,
   fields |-> [seq |-> <<"7">>, state |-> <<"0">>,
               value |-> EncodedScreenSize(size)]]

IsScreenSizeReply(out) == \E size \in ScreenSizes : out = ScreenSizeReply(size)

\* C10 as stated: once getScreenSize index=0 seq=7 was handled, surface 0
\* has received the resolved reply for seq 7 with the encoded metrics, and
\* the reply went nowhere else.
ScreenSizeReplyToSurface ==
  \A k \in DOMAIN rs.metrics :
    /\ \E j \in DOMAIN rs.w[0].evals :
         rs.w[0].evals[j] =
           <<"resolve", <<"7">>, <<"0">>, EncodedScreenSize(rs.metrics[k])>>
    /\ \A j \in DOMAIN rs.stdin : ~IsScreenSizeReply(rs.stdin[j])

\* C10 amended: each getScreenSize index=0 seq=7 handled has put one
\* resolve line for seq 7, state 0 and the encoded metrics it queried on the
\* backend's input, in order, by way of the window's onMessage callback;
\* no surface was given a script for it.
ScreenSizeReplyToBackend ==
  /\ SelectSeq(rs.stdin, IsScreenSizeReply) =
       [k \in DOMAIN rs.metrics |-> ScreenSizeReply(rs.metrics[k])]
  /\ SelectSeq(rs.delivered, IsScreenSizeReply) =
       [k \in DOMAIN rs.metrics |-> ScreenSizeReply(rs.metrics[k])]
  /\ \A i \in Windows : \A j \in DOMAIN rs.w[i].evals :
       \A size \in ScreenSizes :
         rs.w[i].evals[j] #
           <<"resolve", <<"7">>, <<"0">>, EncodedScreenSize(size)>>

\* C10's case: getScreenSize index=0 seq=7 was handled with the metrics
\* 1920 x 1080.
ScreenSizeAsked ==
  /\ Len(processed) = 1
  /\ processed[1] = [name |-> "getScreenSize", index |-> <<"0">>,
                     fields |-> [seq |-> <<"7">>]]
  /\ rs.metrics = <<[width |-> 1920, height |-> 1080]>>
  /\ Len(rs.stdin) = 1

\* C11: a backend size command whose width or height is not an integer
\* fails alone: the step that ends its handler leaves the windows as they
\* were and the program running, the dispatched closures queued and the
\* event-loop thread free to take them.
SizeFailsLocally ==
  [][\A t \in Threads :
       (/\ Finishes(t)
        /\ running[t].table = "stdout"
        /\ running[t].out.name = "size"
        /\ \/ ~IsInteger(Get(running[t].out, "width"))
           \/ ~IsInteger(Get(running[t].out, "height")))
       => /\ rs'.w = rs.w
          /\ terminated' = terminated
          /\ queue' = queue
          /\ running'[t] = NoTask]_vars

NotExit(out) == out.name # "exit"

\* The value of a line of the command-mode scenario as the host sees it.
Echoed(out) ==
  IF "value" \notin DOMAIN out.fields THEN <<>>
  ELSE IF out.fields.value = <<"a", "%", "2", "0", "b">> THEN <<"a", " ", "b">>
  ELSE out.fields.value

\* C12: in command mode no window is constructed; the host's stdout holds
\* the decoded values of the lines the backend wrote that are not exit
\* lines, in the order written; nothing is read after an exit line, and an
\* exit line with value 3 (or 42) has ended the program with code 3 (42).
CommandEchoThenExit ==
  pc \in CommandPcs =>
    /\ DOMAIN rs.w = {}
    /\ Len(rs.hostOut) = Len(SelectSeq(script, NotExit))
    /\ \A k \in DOMAIN rs.hostOut :
         rs.hostOut[k] = Echoed(SelectSeq(script, NotExit)[k])
    /\ \A k \in DOMAIN script :
         script[k].name = "exit" =>
           /\ k = Len(script)
           /\ Get(script[k], "value") = <<"3">> =>
                terminated = [by |-> "command", code |-> 3]
           /\ Get(script[k], "value") = <<"4", "2">> =>
                terminated = [by |-> "command", code |-> 42]

\* C12's case: started as app build --target=ios, the program echoed two
\* lines, the first one decoded, and the line exit value=3 ended it.
CommandExitThree ==
  /\ argv = <<App, Build, TargetIos>>
  /\ Len(script) = 3
  /\ script[3] = [name |-> "exit", index |-> <<>>, fields |-> [value |-> <<"3">>]]
  /\ rs.hostOut = <<<<"a", " ", "b">>, <<"t">>>>
  /\ terminated = [by |-> "command", code |-> 3]

\* C13: in command mode an exit line whose value is absent or not an
\* integer ends the program with exit code 0.
CommandExitDefaultsZero ==
  \A k \in DOMAIN script :
    (/\ pc \in CommandPcs
     /\ script[k].name = "exit"
     /\ ~IsInteger(Get(script[k], "value")))
    => terminated = [by |-> "command", code |-> 0]

\* C14: in command mode and in GUI mode alike, the coordinator a signal
\* invokes is given the signal's number, whatever main's exitCode is; it
\* kills the backend process before anything else, and when it reaches its
\* exit the program has ended with the signal's number.
SignalExitsWithSignalNumber ==
  \A k \in DOMAIN runs :
    runs[k].by = "signal" =>
      /\ runs[k].code \in {SIGINT, SIGHUP}
      /\ runs[k].did # <<>> =>
           /\ runs[k].did[1] = "process.kill"
           /\ kills.process > 0
           /\ runs[k].did[Len(runs[k].did)] = "exit" =>
                terminated = [by |-> "exit", code |-> runs[k].code]

\* C14's case: in GUI mode an exit command had set exitCode to 42 when
\* SIGINT arrived, and the coordinator SIGINT invoked ended the program
\* with 2.
SignalAfterExitCode ==
  /\ handler = "gui"
  /\ rs.exitCode = 42
  /\ \E k \in DOMAIN runs :
       /\ runs[k].by = "signal"
       /\ runs[k].code = SIGINT
       /\ Len(runs[k].did) = 5
  /\ terminated = [by |-> "exit", code |-> 2]

\* C14 in command mode: SIGHUP ended the program with 1 once the backend
\* had written a line.
SignalInCommandMode ==
  /\ handler = "command"
  /\ Len(script) = 1
  /\ terminated = [by |-> "exit", code |-> 1]
  /\ kills.process = 1

Did(op) ==
  {k \in DOMAIN runs : \E j \in DOMAIN runs[k].did : runs[k].did[j] = op}

Begins(arg, a, b) == Len(arg) >= 2 /\ arg[1] = a /\ arg[2] = b

\* The argument is a help or version flag: it begins with -h, -v, -V,
\* --help or --version.
HelpOrVersionFlag(arg) ==
  \/ Begins(arg, "-", "h")
  \/ Begins(arg, "-", "v")
  \/ Begins(arg, "-", "V")
  \/ /\ Begins(arg, "-", "-")
     /\ Len(arg) >= 6
     /\ <<arg[3], arg[4], arg[5], arg[6]>> = <<"h", "e", "l", "p">>
  \/ /\ Begins(arg, "-", "-")
     /\ Len(arg) >= 9
     /\ <<arg[3], arg[4], arg[5], arg[6], arg[7], arg[8], arg[9]>>
          = <<"v", "e", "r", "s", "i", "o", "n">>

\* Some argument after the program name is a bare token, or a help or
\* version flag is given.
WantsCommandMode ==
  \/ \E k \in 2..Len(argv) : argv[k] = <<>> \/ argv[k][1] # "-"
  \/ \E k \in DOMAIN argv : HelpOrVersionFlag(argv[k])

\* C17: once the argv loop has run, main is in the command-mode block, with
\* no window constructed, exactly when some argument after the program name
\* is a bare token or a help or version flag is given; otherwise it
\* constructs both windows and goes on in GUI mode.
ModeByArguments ==
  pc # "argv" =>
    /\ pc \in CommandPcs <=> WantsCommandMode
    /\ pc \in CommandPcs => DOMAIN rs.w = {}
    /\ pc \notin CommandPcs =>
         /\ pc \in {"windows", "process"}
         /\ pc = "process" => DOMAIN rs.w = Windows

\* C17's case: app --test build, whose bare token follows a flag, has
\* entered command mode and started the backend.
BareTokenAfterFlag ==
  /\ argv = <<App, TestFlag, Build>>
  /\ pc = "command.shutdownHandler"
  /\ rs.live = 1

\* C17 in GUI mode: app --target=ios has constructed both windows.
FlagsOnly ==
  /\ argv = <<App, TargetIos>>
  /\ pc = "process"
  /\ DOMAIN rs.w = Windows

\* C18: the handler of a backend external command opens the decoded URI
\* and then, when the command has a non-empty seq and only then, hands one
\* acknowledgement (resolve, state 0, value null, that seq) to the
\* window's onMessage, which forwards it to the backend; nothing else is
\* opened, handed over or forwarded.
ExternalAcknowledgedOnce ==
  [][\A t \in Threads :
       (/\ Finishes(t)
        /\ running[t].table = "stdout"
        /\ running[t].out.name = "external")
       => LET out == running[t].out
              i == IF out.index = <<"1">> THEN 1 ELSE 0
              uri == IF out.fields.value = <<"u", "%", "2", "6", "v">>
                       THEN <<"u", "&", "v">> ELSE out.fields.value
              ack == [name |-> "resolve", index |-> <<>>,
                      fields |-> [seq |-> out.fields.seq, state |-> <<"0">>,
                                  value |-> <<"n", "u", "l", "l">>]]
          IN IF "seq" \in DOMAIN out.fields /\ out.fields.seq # <<>>
               THEN /\ rs'.sys = rs.sys \o <<<<"openExternal", i, uri>>,
                                              <<"onMessage", i>>>>
                    /\ rs'.delivered = Append(rs.delivered, ack)
                    /\ rs'.stdin = Append(rs.stdin, ack)
               ELSE /\ rs'.sys = Append(rs.sys, <<"openExternal", i, uri>>)
                    /\ rs'.delivered = rs.delivered
                    /\ rs'.stdin = rs.stdin]_vars

\* C18's case: an external command with seq 7 was handled and then one
\* with no seq.
ExternalTwice ==
  /\ Len(processed) = 2
  /\ rs.sys = << <<"openExternal", 0, <<"u", "&", "v">>>>, <<"onMessage", 0>>,
                 <<"openExternal", 1, <<"u">>>> >>
  /\ Len(rs.delivered) = 1
  /\ Len(rs.stdin) = 1

\* The window the index text of a line of the scenario names: window 0 for
\* 0, for no index and for one that is not a number, window 1 for the rest.
Indexed(out) == IF out.index \in {<<>>, <<"x">>, <<"0">>} THEN 0 ELSE 1

\* What the command of table has done to the window it acts on.
ActedOn(table, out, before, after) ==
  CASE out.name = "title" -> after.title = <<"n">>
    [] out.name = "show" /\ table = "stdout" -> after.visible
    [] out.name = "hide" -> ~after.visible
    [] out.name = "navigate" /\ table = "stdout" -> after.location = <<"n">>
    [] out.name = "size" /\ table = "stdout" ->
         after.width = 30 /\ after.height = 20
    [] out.name = "menu" /\ table = "stdout" -> after.menu = <<"n">>
    [] out.name = "context" /\ table = "message" -> after.context = <<"n">>
    [] out.name \in {"resolve", "send"} /\ table = "stdout" ->
         Len(after.evals) = Len(before.evals) + 1
    [] OTHER -> after = before

\* C19: in both tables the handler of a command acts on the window its
\* index selects and leaves the other window as it was: the selected
\* window takes the command's effect, and the platform calls and the exit
\* callback the handler makes are that window's.
CommandActsOnIndexedWindow ==
  [][\A t \in Threads :
       Finishes(t) =>
         LET out == running[t].out
             i == Indexed(out)
         IN /\ rs'.w[1 - i] = rs.w[1 - i]
            /\ ActedOn(running[t].table, out, rs.w[i], rs'.w[i])
            /\ \A j \in (Len(rs.sys) + 1)..Len(rs'.sys) :
                 rs'.sys[j][1] \in {"openExternal", "showInspector", "openDialog"}
                   => rs'.sys[j][2] = i
            /\ \A j \in (Len(rs.fired) + 1)..Len(rs'.fired) :
                 rs'.fired[j].win = i]_vars

\* C19's case: a backend title command with index 2 and a surface context
\* command with index 2 were handled; both acted on window 1.
IndexTwo ==
  /\ Len(processed) = 1
  /\ processed[1].name = "title"
  /\ processed[1].index = <<"2">>
  /\ Len(rs.delivered) = 1
  /\ rs.delivered[1].index = <<"2">>
  /\ rs.w[1].title = <<"n">>
  /\ rs.w[1].context = <<"n">>
  /\ rs.w[0] = InitWindows[0]

\* C20: while signalHandler is installed the global shutdownHandler is
\* bound; the event-loop thread executes a dispatched command or a surface
\* message only with the windows' onMessage and onExit bound and the
\* GUI-mode shutdownHandler behind them; every invocation of the
\* shutdownHandler found it bound, and no call of it while empty has ended
\* the program.
HandlersBoundBeforeUse ==
  /\ installed => handler # "unbound"
  /\ rs.onExitBound => handler = "gui"
  /\ \A t \in Threads :
       running[t] # NoTask =>
         /\ rs.onMessageBound
         /\ rs.onExitBound
         /\ pc = "loop"
  /\ runs # <<>> => handler # "unbound"
  /\ terminated.by # "bad_function_call"

\* C20's case: in GUI mode a signal has invoked the shutdownHandler while
\* the event-loop thread executes a dispatched backend command.
SignalWhileDispatching ==
  /\ handler = "gui"
  /\ installed
  /\ running["loop"] # NoTask
  /\ running["loop"].table = "stdout"
  /\ Len(runs) = 1
  /\ runs[1].by = "signal"

\* C20 in command mode: a signal has invoked the command-mode
\* shutdownHandler.
SignalInvokedCommandHandler ==
  /\ handler = "command"
  /\ installed
  /\ Len(runs) = 1
  /\ runs[1].did = <<"process.kill">>

====
